---- MODULE Spec2Model ----
(***************************************************************************)
(* Model of the gpsExtraService location manager                           *)
(* (src/andygmpub/gpsExtraService/src/location_manager.c) and of the       *)
(* service entry points that drive it.                                     *)
(*                                                                         *)
(* Every handler runs to completion on the single-threaded host event      *)
(* loop, so each handler is one action.  A C function is an operator that  *)
(* takes the machine record m (the three static structs, the provider's    *)
(* registrations, the pending timers, and the calls made so far by the     *)
(* running handler) and returns the machine after the function together    *)
(* with the function's return value.  The outcomes of platform calls are   *)
(* the handler's inputs.                                                   *)
(***************************************************************************)
EXTENDS Integers, Sequences, FiniteSets, TLC

VARIABLES
    s_location_data,  \* the static ServiceState struct
    s_gps_data,       \* the static position reading
    s_sat_data,       \* the static satellite reading
    provider,         \* the platform location manager's side of the handle
    timers,           \* number of pending ecore timers (all run onTimerSend)
    now,              \* the wall clock read by time()
    process,          \* "running", "crashed" or "exited"
    op,               \* the handler that ran last, with its inputs
    calls,            \* platform calls made by the handler that ran last
    sent,             \* payloads handed to message_port_send_message by it
    compared,         \* position timestamps initData compared with the clock in it
    ret               \* what the handler (and the functions it ran) returned

vars == <<s_location_data, s_gps_data, s_sat_data, provider, timers,
          now, process, op, calls, sent, compared, ret>>

----------------------------------------------------------------------------
(* Program constants.                                                      *)

MAX_TIME_DIFF == 30

CHAR_BUFF_SIZE == 20

LOCATIONS_SERVICE_DISABLED == "LOCATIONS_SERVICE_DISABLED"

LOCATIONS_SERVICE_ENABLED == "LOCATIONS_SERVICE_ENABLED"

MESSAGE_TYPE_POSITION_UPDATE == "POSITION_UPDATE"

MESSAGE_TYPE_SATELLITES_UPDATE == "SATELLITES_UPDATE"

ECORE_CALLBACK_CANCEL == FALSE

ECORE_CALLBACK_RENEW == TRUE

NULL == "NULL"

Handle == "location_manager_h"

----------------------------------------------------------------------------
(* Bounds of the model.                                                    *)

\* The clock value at which the service is created.
BootTime == 40

\* The clock advances one second at a time up to BootTime + MaxElapsed.
MaxElapsed == 1

\* At most this many retry timers are pending at once.
MaxTimers == 2

\* Coordinates are doubles; the model counts them in units of 10^-6, the
\* precision "%f" prints.  One fix with three different coordinates.
Micro == 1000000

Coordinates == { [latitude |-> 37500000, longitude |-> 127000000, altitude |-> 50200000] }

\* Ages (now - timestamp) of the positions the provider hands out, on both
\* sides of the comparison each is put to: a fetched position is expired
\* when its age is > MAX_TIME_DIFF, a position update is forwarded when its
\* age is < MAX_TIME_DIFF.
FetchAges == { MAX_TIME_DIFF, MAX_TIME_DIFF + 1 }

UpdateAges == { MAX_TIME_DIFF - 1, MAX_TIME_DIFF }

SatCounts == { [active |-> 0, inview |-> 0, age |-> MAX_TIME_DIFF + 1],
               [active |-> 2, inview |-> 3, age |-> 0] }

----------------------------------------------------------------------------
(* The machine record threaded through the functions of one handler.       *)

Machine ==
    [ ld |-> s_location_data, gps |-> s_gps_data, sat |-> s_sat_data,
      prov |-> provider, timers |-> timers,
      process |-> process, calls |-> << >>, sent |-> << >>,
      compared |-> << >>, rets |-> << >> ]

\* A platform call made by the running handler.
Call(m, api) == [m EXCEPT !.calls = Append(@, api)]

\* A function of the module returning val.
Return(m, fn, val) ==
    [ m |-> [m EXCEPT !.rets = Append(@, [fn |-> fn, val |-> val])], ret |-> val ]

\* The provider rejects every call made with a NULL handle.
Live(m) == m.ld.manager # NULL

----------------------------------------------------------------------------
(* snprintf( buf, CHAR_BUFF_SIZE, "%f" / "%d", v ) and the payloads.       *)

Abs(v) == IF v < 0 THEN -v ELSE v

RECURSIVE Digits(_)
Digits(n) == IF n < 10 THEN 1 ELSE 1 + Digits(n \div 10)

RECURSIVE Pow10(_)
Pow10(k) == IF k = 0 THEN 1 ELSE 10 * Pow10(k - 1)

Min(a, b) == IF a < b THEN a ELSE b

\* "%f" prints sign, integer part, '.', six decimals; snprintf keeps the
\* first CHAR_BUFF_SIZE - 1 characters.  The text is the sign, the integer
\* part and the fraction digits that fit (kept: how many of the six).
FormatF(v) ==
    LET sign  == IF v < 0 THEN 1 ELSE 0
        whole == Abs(v) \div Micro
        frac  == Abs(v) % Micro
        room  == (CHAR_BUFF_SIZE - 1) - (sign + Digits(whole) + 1)
        kept  == IF room < 0 THEN 0 ELSE Min(6, room)
    IN  [ neg |-> v < 0, whole |-> whole, kept |-> kept,
          frac |-> frac \div Pow10(6 - kept) ]

\* "%d" of an int: sign and decimal digits (at most 11 characters, so the
\* buffer never cuts it).
FormatD(n) == [ neg |-> n < 0, digits |-> Abs(n) ]

NullBundle == [ valid |-> FALSE ]

PositionBundle(gps) ==
    LET latitude_str  == FormatF(gps.latitude)
        longitude_str == FormatF(gps.longitude)
        altitude_str  == FormatF(gps.altitude)
    IN  [ valid |-> TRUE,
          kv |-> [ msg_type  |-> MESSAGE_TYPE_POSITION_UPDATE,
                   latitude  |-> latitude_str,
                   longitude |-> longitude_str,
                   altitude  |-> longitude_str ] ]

SatelliteBundle(st) ==
    [ valid |-> TRUE,
      kv |-> [ msg_type |-> MESSAGE_TYPE_SATELLITES_UPDATE,
               active   |-> FormatD(st.active),
               inview   |-> FormatD(st.inview) ] ]

----------------------------------------------------------------------------
(* Every function of the module is the set of its possible outcomes        *)
(* [m, ret]: one per combination of results of the platform calls it       *)
(* makes.  Then(S, F(_)) runs F on the machine of every outcome in S.      *)

Then(S, F(_)) == UNION { F(r) : r \in S }

----------------------------------------------------------------------------
(* Message Sender.                                                         *)

\* Faulty variant: a send the channel refused is attempted once more.
deliverMessage_Retries(m, b) ==
    IF b.valid
    THEN LET m1 == [Call(m, "message_port_send_message")
                       EXCEPT !.sent = Append(@, b.kv)]
             m2 == [Call(m1, "message_port_send_message")
                       EXCEPT !.sent = Append(@, b.kv)]
         IN  { Return(m1, "sendMessage", TRUE) }
             \cup { Return(m2, "sendMessage", sentOk) : sentOk \in BOOLEAN }
    ELSE { Return(m, "sendMessage", FALSE) }

\* sendMessage with a peer: message_port_send_message succeeds or fails.
deliverMessage(m, b) ==
    IF b.valid
    THEN LET m1 == [Call(m, "message_port_send_message")
                       EXCEPT !.sent = Append(@, b.kv)]
         IN  { Return(m1, "sendMessage", sentOk) : sentOk \in BOOLEAN }
    ELSE { Return(m, "sendMessage", FALSE) }

\* Faulty variant: sendMessage without its peer check.
sendMessage_NoPeerCheck(m, b) == deliverMessage(m, b)

sendMessage(m, b) ==
    IF ~m.ld.connected
    THEN { Return(m, "sendMessage", TRUE) }
    ELSE deliverMessage(m, b)

\* bundle_create returns a bundle or NULL.
sendPosition(m) ==
    LET withBundle(b) ==
            IF b.valid
            THEN { Return(r.m, "sendPosition", r.ret) : r \in sendMessage(m, b) }
            ELSE { Return(m, "sendPosition", FALSE) }
    IN  withBundle(PositionBundle(m.gps)) \cup withBundle(NullBundle)

sendSatellite(m) ==
    LET withBundle(b) ==
            IF b.valid
            THEN { Return(r.m, "sendSatellite", r.ret) : r \in sendMessage(m, b) }
            ELSE { Return(m, "sendSatellite", FALSE) }
    IN  withBundle(SatelliteBundle(m.sat)) \cup withBundle(NullBundle)

----------------------------------------------------------------------------
(* What the provider hands out.  A fetch either fails, leaving the         *)
(* out-parameters alone, or stores a reading with timestamp now - age.     *)
(* Every call made with a NULL handle fails.                               *)

Fixes(ages) == { [ latitude |-> c.latitude, longitude |-> c.longitude,
                   altitude |-> c.altitude, timestamp |-> now - a ] :
                 c \in Coordinates, a \in ages }

\* What a fetch may store, and what a position update may carry.
LocFixes == Fixes(FetchAges)

LocUpdates == Fixes(UpdateAges)

SatFixes == { [ active |-> c.active, inview |-> c.inview,
                timestamp |-> now - c.age ] : c \in SatCounts }

\* location_manager_get_location
FetchLocation(m, api) ==
    LET m1 == Call(m, api)
    IN  {m1} \cup IF Live(m) THEN { [m1 EXCEPT !.gps = f] : f \in LocFixes } ELSE {}

\* location_manager_get_last_location in initData, which branches on
\* whether it returned LOCATIONS_ERROR_NONE.
FetchLastLocation(m) ==
    LET api == "location_manager_get_last_location"
        m1 == Call(m, api)
        failed == Return(m1, api, FALSE).m
        stored == Return(m1, api, TRUE).m
    IN  {failed} \cup IF Live(m) THEN { [stored EXCEPT !.gps = f] : f \in LocFixes } ELSE {}

\* gps_status_get_satellite, gps_status_get_last_satellite
FetchSatellite(m, api) ==
    LET m1 == Call(m, api)
    IN  {m1} \cup IF Live(m) THEN { [m1 EXCEPT !.sat = f] : f \in SatFixes } ELSE {}

\* A registration call: whether it succeeded.
Register(m) == IF Live(m) THEN BOOLEAN ELSE {FALSE}

\* gps_status_foreach_satellites_in_view: onSatelliteData only logs.
ForeachInView(m) ==
    IF m.sat.inview > 0 THEN Call(m, "gps_status_foreach_satellites_in_view") ELSE m

----------------------------------------------------------------------------
(* Subscription Manager.                                                   *)

disableGPS(m) ==
    LET m1 == IF m.ld.manager # NULL
              THEN [Call(m, "location_manager_unset_position_updated_cb")
                       EXCEPT !.prov.posCb = FALSE]
              ELSE m
    IN  [m1 EXCEPT !.ld.gpsEnabled = FALSE]

disableSat(m) ==
    LET m1 == IF m.ld.manager # NULL
              THEN [Call(m, "gps_status_unset_satellite_updated_cb")
                       EXCEPT !.prov.satCb = FALSE]
              ELSE m
    IN  [m1 EXCEPT !.ld.satEnabled = FALSE]

\* Faulty variant: the freshness window is one second too long.
lastLocationExpired_OffByOne(timestamp) == now - timestamp > MAX_TIME_DIFF + 1

\* cur_timestamp - s_gps_data.timestamp > MAX_TIME_DIFF
lastLocationExpired(timestamp) == now - timestamp > MAX_TIME_DIFF

initData(m) ==
    LET expired(m1) == lastLocationExpired(m1.gps.timestamp)
        check(m1) == [m1 EXCEPT !.compared = Append(@, m1.gps.timestamp)]
        satellites(m1) ==
            { Return(ForeachInView(m2), "initData", TRUE) :
                  m2 \in FetchSatellite(m1, "gps_status_get_last_satellite") }
    IN  UNION { IF expired(m1)
                THEN { Return(check(m1), "initData", FALSE) }
                ELSE satellites(check(m1)) :
                m1 \in FetchLastLocation(m) }

initDataSend(m) ==
    LET position(s) ==
            IF ~s.ret
            THEN { Return(s.m, "initDataSend", FALSE) }
            ELSE { IF ~p.ret
                   THEN Return(p.m, "initDataSend", FALSE)
                   ELSE Return([p.m EXCEPT !.ld.data_sent = TRUE], "initDataSend", TRUE) :
                   p \in sendPosition(s.m) }
        satellite(i) ==
            IF ~i.ret
            THEN { Return(i.m, "initDataSend", FALSE) }
            ELSE Then(sendSatellite(i.m), position)
    IN  Then(initData(m), satellite)

\* ecore_timer_add( SEND_DATA_INTERVAL, onTimerSend, NULL ): the handle it
\* returns is dropped.
TimerAdd(m) ==
    [Call(m, "ecore_timer_add") EXCEPT !.timers = @ + 1]

\* Faulty variant: enableGPS reports what the warm-start reported.
registerPosition_WarmStartDecides(m) ==
    LET m1 == Call(m, "location_manager_set_position_updated_cb")
        warm(w) ==
            LET m2 == IF ~w.ret THEN TimerAdd(w.m) ELSE w.m
            IN  { Return([m2 EXCEPT !.ld.gpsEnabled = TRUE], "enableGPS", w.ret) }
        registered(regOk) ==
            IF ~regOk
            THEN { Return(disableGPS(m1), "enableGPS", FALSE) }
            ELSE Then(initDataSend([m1 EXCEPT !.prov.posCb = TRUE]), warm)
    IN  UNION { registered(regOk) : regOk \in Register(m) }

\* enableGPS past its guard: steps 2 and 3.
registerPosition(m) ==
    LET m1 == Call(m, "location_manager_set_position_updated_cb")
        warm(w) ==
            LET m2 == IF ~w.ret THEN TimerAdd(w.m) ELSE w.m
            IN  { Return([m2 EXCEPT !.ld.gpsEnabled = TRUE], "enableGPS", TRUE) }
        registered(regOk) ==
            IF ~regOk
            THEN { Return(disableGPS(m1), "enableGPS", FALSE) }
            ELSE Then(initDataSend([m1 EXCEPT !.prov.posCb = TRUE]), warm)
    IN  UNION { registered(regOk) : regOk \in Register(m) }

\* Faulty variant: enableGPS without its "already initialized" guard.
enableGPS_Unguarded(m) == registerPosition(m)

enableGPS(m) ==
    IF m.ld.gpsEnabled
    THEN { Return(m, "enableGPS", TRUE) }
    ELSE registerPosition(m)

enableSat(m) ==
    IF m.ld.satEnabled
    THEN { Return(m, "enableSat", TRUE) }
    ELSE LET m1 == Call(m, "gps_status_set_satellite_updated_cb")
             registered(regOk) ==
                 IF ~regOk
                 THEN Return(disableSat(m1), "enableSat", FALSE)
                 ELSE Return([m1 EXCEPT !.prov.satCb = TRUE, !.ld.satEnabled = TRUE],
                             "enableSat", TRUE)
         IN  { registered(regOk) : regOk \in Register(m) }

----------------------------------------------------------------------------
(* Connectivity Probe.                                                     *)

\* gpsConnected() returns gpsStatus == RUNTIME_INFO_GPS_STATUS_CONNECTED,
\* where gpsStatus is what the platform reports (or, when the query fails,
\* an uninitialised int): either answer is possible.
gpsConnected == BOOLEAN

\* A call of gpsConnected() and what it returned.
probeGps(m) == { Return(m, "gpsConnected", conn) : conn \in gpsConnected }

\* message_port_check_remote_port writes whether the peer's port exists.
checkRemotePort(m) == { [m EXCEPT !.ld.connected = found] : found \in BOOLEAN }

\* logNMEA( 1 ): when gps_status_get_nmea succeeds, the first character of
\* the sentence is passed to dlog_print for a "%s": undefined behaviour,
\* which either logs garbage or aborts the process.
logNMEA(m) ==
    LET m1 == Call(m, "gps_status_get_nmea")
    IN  {m1} \cup IF Live(m) THEN { [m1 EXCEPT !.process = "crashed"] } ELSE {}

----------------------------------------------------------------------------
(* Provider callbacks and the retry timer.                                 *)

\* Faulty variant: enableSat is called whatever the probe returned.
enableSatIfConnected_NoProbe(m) ==
    UNION { { r.m : r \in enableSat(p.m) } : p \in probeGps(m) }

\* if( gpsConnected() ) enableSat();
enableSatIfConnected(m) ==
    UNION { IF p.ret THEN { r.m : r \in enableSat(p.m) } ELSE { p.m } :
            p \in probeGps(m) }

\* Faulty variant: GPS is disabled before the satellites.
stateDisabled_GpsFirst(m) == disableSat(disableGPS(m))

\* onStateChange, LOCATIONS_SERVICE_DISABLED
stateDisabled(m) == disableGPS(disableSat(m))

onStateChange(m, state) ==
    LET m0 == [m EXCEPT !.ld.state = state]
        satellite(g) == enableSatIfConnected(g.m)
        fetch(m1) ==
            UNION { FetchSatellite(m2, "gps_status_get_satellite") :
                    m2 \in FetchLocation(m1, "location_manager_get_location") }
    IN  IF state = LOCATIONS_SERVICE_ENABLED
        THEN Then(Then(Then(enableGPS(m0), satellite), fetch), logNMEA)
        ELSE IF state = LOCATIONS_SERVICE_DISABLED
             THEN { stateDisabled(m0) }
             ELSE { m0 }

\* Faulty variant: a reading exactly MAX_TIME_DIFF old is still forwarded.
forwardPosition_Inclusive(m, timestamp) ==
    m.ld.data_sent /\ now - timestamp <= MAX_TIME_DIFF

\* Faulty variant: the callback forwards whatever data_sent is.
forwardPosition_NoGate(m, timestamp) == now - timestamp < MAX_TIME_DIFF

\* s_location_data.data_sent && curr_timestamp - timestamp < MAX_TIME_DIFF
forwardPosition(m, timestamp) == m.ld.data_sent /\ now - timestamp < MAX_TIME_DIFF

onPositionChange(m, fix) ==
    LET m0 == [m EXCEPT !.gps = fix]
        satellite == enableSatIfConnected(m0)
        forward(m1) ==
            IF forwardPosition(m1, fix.timestamp)
            THEN { r.m : r \in sendPosition(m1) }
            ELSE { m1 }
    IN  Then(satellite, forward)

\* s_location_data.data_sent
forwardSatellite(m) == m.ld.data_sent

onSatelliteChange(m, fix) ==
    LET m0 == ForeachInView([m EXCEPT !.sat = fix])
    IN  IF forwardSatellite(m0)
        THEN { r.m : r \in sendSatellite(m0) }
        ELSE { m0 }

\* Faulty variant: the timer callback renews itself whatever warm-start did.
onTimerSend_NeverCancels(m) ==
    { Return(w.m, "onTimerSend", ECORE_CALLBACK_RENEW) : w \in initDataSend(m) }

onTimerSend(m) ==
    { IF w.ret
      THEN Return(w.m, "onTimerSend", ECORE_CALLBACK_CANCEL)
      ELSE Return(w.m, "onTimerSend", ECORE_CALLBACK_RENEW) : w \in initDataSend(m) }

----------------------------------------------------------------------------
(* Service Lifecycle Controller.                                           *)

\* locationFinalize up to the destruction of the handle.
teardown(m) ==
    LET m1 == disableGPS(disableSat(m))
    IN  IF m1.ld.manager # NULL
        THEN [Call(Call(Call(m1,
                  "location_manager_unset_service_state_changed_cb"),
                  "location_manager_stop"),
                  "location_manager_destroy")
                 EXCEPT !.prov = [ handle |-> FALSE, stateCb |-> FALSE,
                                   posCb |-> FALSE, satCb |-> FALSE,
                                   started |-> FALSE ]]
        ELSE m1

\* Faulty variant: the handle is destroyed but the pointer is kept.
locationFinalize_KeepsHandle(m) == teardown(m)

\* Faulty variant: teardown also resets the data_sent flag.
locationFinalize_ResetsDataSent(m) ==
    [teardown(m) EXCEPT !.ld.manager = NULL, !.ld.data_sent = FALSE]

locationFinalize(m) == [teardown(m) EXCEPT !.ld.manager = NULL]

locationStop(m) == locationFinalize(m)

\* location_manager_create, location_manager_set_service_state_changed_cb
\* and location_manager_start each succeed or fail.
locationInitialize(m) ==
    LET initialize(p) ==
            LET m0 == Call(p.m, "location_manager_create")
                created == [m0 EXCEPT !.ld.manager = Handle, !.prov.handle = TRUE]
                m1 == Call(created, "location_manager_set_service_state_changed_cb")
                m2 == Call([m1 EXCEPT !.prov.stateCb = TRUE], "location_manager_start")
                start == { m2, [m2 EXCEPT !.prov.started = TRUE] }
            IN  { Return(m0, "locationInitialize", FALSE) }
                \cup { Return(locationFinalize(m1), "locationInitialize", FALSE) }
                \cup { Return(m4, "locationInitialize", TRUE) :
                           m4 \in UNION { checkRemotePort(m3) : m3 \in start } }
    IN  Then(probeGps(m), initialize)

----------------------------------------------------------------------------
(* The state machine: one action per handler the host event loop runs.     *)

ServiceStates == { LOCATIONS_SERVICE_DISABLED, LOCATIONS_SERVICE_ENABLED }

Op(name, state) == [ name |-> name, state |-> state ]

Init ==
    /\ s_location_data = [ gpsEnabled |-> FALSE, satEnabled |-> FALSE,
                           manager |-> NULL, state |-> LOCATIONS_SERVICE_DISABLED,
                           connected |-> FALSE, data_sent |-> TRUE ]
    /\ s_gps_data = [ latitude |-> 0, longitude |-> 0, altitude |-> 0, timestamp |-> 0 ]
    /\ s_sat_data = [ active |-> 0, inview |-> 0, timestamp |-> 0 ]
    /\ provider = [ handle |-> FALSE, stateCb |-> FALSE, posCb |-> FALSE,
                    satCb |-> FALSE, started |-> FALSE ]
    /\ timers = 0
    /\ now = BootTime
    /\ process = "running"
    /\ op = Op("main", "")
    /\ calls = << >>
    /\ sent = << >>
    /\ compared = << >>
    /\ ret = << >>

\* The handler named by o ran and left the machine m.
Commit(m, o) ==
    /\ m.timers <= MaxTimers
    /\ s_location_data' = m.ld
    /\ s_gps_data' = m.gps
    /\ s_sat_data' = m.sat
    /\ provider' = m.prov
    /\ timers' = m.timers
    /\ process' = m.process
    /\ op' = o
    /\ calls' = m.calls
    /\ sent' = m.sent
    /\ compared' = m.compared
    /\ ret' = m.rets
    /\ UNCHANGED now

Running == process = "running"

\* Callbacks are delivered for a started provider.
Delivers(cb) == Running /\ provider.started /\ provider[cb]

ServiceCreate ==
    /\ Running
    /\ s_location_data.manager = NULL
    /\ \E r \in locationInitialize(Machine) : Commit(r.m, Op("onServiceCreate", ""))

ServiceTerminate ==
    /\ Running
    /\ Commit([locationFinalize(Machine) EXCEPT !.process = "exited"],
              Op("onServiceTerminate", ""))

LowBattery ==
    /\ Running
    /\ Commit(locationStop(Machine), Op("onLowBattery", ""))

StateChange ==
    /\ Delivers("stateCb")
    /\ \E state \in ServiceStates :
          \E m \in onStateChange(Machine, state) : Commit(m, Op("onStateChange", state))

PositionChange ==
    /\ Delivers("posCb")
    /\ \E fix \in LocUpdates :
          \E m \in onPositionChange(Machine, fix) : Commit(m, Op("onPositionChange", ""))

SatelliteChange ==
    /\ Delivers("satCb")
    /\ \E fix \in SatFixes :
          \E m \in onSatelliteChange(Machine, fix) : Commit(m, Op("onSatelliteChange", ""))

\* A pending timer fires; ECORE_CALLBACK_CANCEL deletes it.
TimerSend ==
    /\ Running
    /\ timers > 0
    /\ \E r \in onTimerSend(Machine) :
          Commit([r.m EXCEPT !.timers = IF r.ret = ECORE_CALLBACK_CANCEL
                                        THEN @ - 1 ELSE @],
                 Op("onTimerSend", ""))

\* time() advances.
Tick ==
    /\ Running
    /\ now < BootTime + MaxElapsed
    /\ now' = now + 1
    /\ op' = Op("time", "")
    /\ calls' = << >>
    /\ sent' = << >>
    /\ compared' = << >>
    /\ ret' = << >>
    /\ UNCHANGED <<s_location_data, s_gps_data, s_sat_data, provider, timers,
                   process>>

Next ==
    \/ ServiceCreate
    \/ ServiceTerminate
    \/ LowBattery
    \/ StateChange
    \/ PositionChange
    \/ SatelliteChange
    \/ TimerSend
    \/ Tick

Spec == Init /\ [][Next]_vars

\* The handlers applied to either value of the data_sent flag: the static
\* initialiser sets it, and nothing clears it, so Spec alone never runs a
\* handler with the flag clear.
InitGate ==
    \E flag \in BOOLEAN :
        /\ s_location_data = [ gpsEnabled |-> FALSE, satEnabled |-> FALSE,
                               manager |-> NULL, state |-> LOCATIONS_SERVICE_DISABLED,
                               connected |-> FALSE, data_sent |-> flag ]
        /\ s_gps_data = [ latitude |-> 0, longitude |-> 0, altitude |-> 0, timestamp |-> 0 ]
        /\ s_sat_data = [ active |-> 0, inview |-> 0, timestamp |-> 0 ]
        /\ provider = [ handle |-> FALSE, stateCb |-> FALSE, posCb |-> FALSE,
                        satCb |-> FALSE, started |-> FALSE ]
        /\ timers = 0
        /\ now = BootTime
        /\ process = "running"
        /\ op = Op("main", "")
        /\ calls = << >>
        /\ sent = << >>
        /\ compared = << >>
        /\ ret = << >>

SpecGate == InitGate /\ [][Next]_vars

\* What the platform did in the warm-start recorded in m: every position
\* timestamp it compared was inside the freshness window, bundle_create
\* gave a bundle and every send was accepted.
FreshAndDelivering(m) ==
    /\ m.compared # << >>
    /\ \A i \in DOMAIN m.compared : ~lastLocationExpired(m.compared[i])
    /\ \A i \in DOMAIN m.rets :
           m.rets[i].fn \in { "sendMessage", "sendPosition", "sendSatellite" }
               => m.rets[i].val

\* A pending timer fires while the provider's last location is fresh and
\* the channel accepts what it is given.
TimerSendFresh ==
    /\ Running
    /\ timers > 0
    /\ \E r \in onTimerSend(Machine) :
          /\ FreshAndDelivering(r.m)
          /\ Commit([r.m EXCEPT !.timers = IF r.ret = ECORE_CALLBACK_CANCEL
                                           THEN @ - 1 ELSE @],
                    Op("onTimerSend", ""))

\* The event loop keeps firing a pending timer (ecore renews it every
\* SEND_DATA_INTERVAL), and the platform is eventually in the good case.
SpecLive == Init /\ [][Next]_vars /\ WF_vars(TimerSendFresh)

----------------------------------------------------------------------------
(* What the handler that ran last did.                                     *)

Called(api) == \E i \in DOMAIN calls : calls[i] = api

Returned(fn, val) == \E i \in DOMAIN ret : ret[i] = [fn |-> fn, val |-> val]

Ran(fn) == \E i \in DOMAIN ret : ret[i].fn = fn

\* No payload was handed to the IPC channel.
NoSendAttempt == sent = << >> /\ ~Called("message_port_send_message")

\* The Message Sender was not invoked at all.
SenderIdle == NoSendAttempt /\ ~Ran("sendPosition") /\ ~Ran("sendSatellite")

StateEnabled == op = Op("onStateChange", LOCATIONS_SERVICE_ENABLED)

StateDisabled == op = Op("onStateChange", LOCATIONS_SERVICE_DISABLED)

Finalized == op.name \in { "onServiceTerminate", "onLowBattery" }

----------------------------------------------------------------------------
(* Properties.                                                             *)

\* A step in which an ENABLED event finds gpsEnabled set.
C1_SecondEnable ==
    (s_location_data.gpsEnabled /\ StateEnabled')
        => /\ s_location_data'.gpsEnabled
           /\ provider'.posCb
           /\ Returned("enableGPS", TRUE)'
           /\ ~Called("location_manager_set_position_updated_cb")'
           /\ ~Ran("initDataSend")'
           /\ ~Called("location_manager_get_last_location")'
           /\ ~Called("ecore_timer_add")'
           /\ timers' = timers

\* C1: an ENABLED event that finds gpsEnabled set (enableGPS called again
\* with no disable in between) leaves gpsEnabled set and the one callback
\* registration in place: it makes no registration call, runs no warm-start
\* and adds no timer.  gpsEnabled is set exactly when the position callback
\* is registered.
C1_EnableGpsIdempotent ==
    /\ [](s_location_data.gpsEnabled <=> provider.posCb)
    /\ [][C1_SecondEnable]_vars

\* An ENABLED event ran enableGPS with the callback already registered.
C1_Witness ==
    /\ StateEnabled
    /\ s_location_data.gpsEnabled
    /\ Returned("enableGPS", TRUE)
    /\ ~Called("location_manager_set_position_updated_cb")

\* A step that runs locationFinalize from a service entry point.
C2_FinalizeStep ==
    Finalized'
        => /\ s_location_data'.manager = NULL
           /\ ~s_location_data'.gpsEnabled
           /\ ~s_location_data'.satEnabled
           /\ provider' = [ handle |-> FALSE, stateCb |-> FALSE, posCb |-> FALSE,
                            satCb |-> FALSE, started |-> FALSE ]
           /\ (s_location_data.manager = NULL => calls' = << >>)

\* C2: a finalize that finds no provider handle makes no provider call, and
\* after every finalize the handle is cleared, nothing is registered and
\* gpsEnabled and satEnabled are false.
C2_FinalizeIdempotent == [][C2_FinalizeStep]_vars

\* A finalize found no handle.
C2_Witness ==
    /\ op.name = "onLowBattery"
    /\ calls = << >>
    /\ s_location_data.manager = NULL

\* C3: once data_sent is true it is true in every later state.
C3_Latch == [][s_location_data.data_sent => s_location_data'.data_sent]_vars

\* A finalize tore down a live handle and data_sent is still true.
C3_Witness ==
    /\ Finalized
    /\ Called("location_manager_destroy")
    /\ s_location_data.data_sent

\* initData compared a position timestamp more than MAX_TIME_DIFF old.
WarmStartExpired == \E i \in DOMAIN compared : now - compared[i] > MAX_TIME_DIFF

C4_ExpiredStep ==
    WarmStartExpired'
        => /\ Returned("initData", FALSE)'
           /\ Returned("initDataSend", FALSE)'
           /\ ~Returned("initDataSend", TRUE)'
           /\ SenderIdle'
           /\ s_location_data'.data_sent = s_location_data.data_sent

\* C4: a warm-start whose fetched position timestamp is more than
\* MAX_TIME_DIFF behind the clock reports failure, invokes no sender and
\* leaves data_sent as it was.
C4_Freshness == [][C4_ExpiredStep]_vars

\* A warm-start ran on an expired position with data_sent clear.
C4_Witness ==
    /\ WarmStartExpired
    /\ Returned("initDataSend", FALSE)
    /\ ~s_location_data.data_sent

\* C5: a DISABLED event unregisters the satellite callback, then the
\* position callback, and leaves both flags false.
C5_DisableOrder ==
    StateDisabled
        => /\ calls = << "gps_status_unset_satellite_updated_cb",
                         "location_manager_unset_position_updated_cb" >>
           /\ ~s_location_data.gpsEnabled
           /\ ~s_location_data.satEnabled
           /\ ~provider.posCb
           /\ ~provider.satCb

C5_Witness ==
    /\ StateDisabled
    /\ Len(calls) = 2
    /\ s_location_data.state = LOCATIONS_SERVICE_DISABLED

\* A step that runs a position or satellite callback.
C6_GateStep ==
    /\ (op'.name = "onPositionChange" /\ ~s_location_data.data_sent)
           => (s_gps_data' \in LocUpdates /\ SenderIdle')
    /\ (op'.name = "onSatelliteChange" /\ ~s_location_data.data_sent)
           => (s_sat_data' \in SatFixes /\ SenderIdle')
    /\ (op'.name \in { "onPositionChange", "onSatelliteChange" } /\ ~SenderIdle')
           => s_location_data.data_sent

\* C6: a position or satellite callback that runs with data_sent false
\* stores its reading and does not invoke the Message Sender at all; so a
\* callback invokes it only with data_sent true.
C6_ForwardingGate == [][C6_GateStep]_vars

\* A position callback ran with data_sent false.
C6_Witness ==
    /\ op.name = "onPositionChange"
    /\ ~s_location_data.data_sent
    /\ s_gps_data \in LocUpdates
    /\ SenderIdle

\* C7: right after a successful initialize data_sent is false, and a
\* position callback run on that state sends nothing.
C7_GateClosedAfterInit ==
    (op.name = "onServiceCreate" /\ Returned("locationInitialize", TRUE))
        => /\ ~s_location_data.data_sent
           /\ \A fix \in LocUpdates : \A m \in onPositionChange(Machine, fix) :
                  m.sent = << >> /\ \A i \in DOMAIN m.rets : m.rets[i].fn # "sendPosition"

\* C8 as claimed: with no peer, sendPosition and sendSatellite return true
\* on every call and attempt no send.
C8_NoPeerAlwaysTrue ==
    ~s_location_data.connected
        => /\ NoSendAttempt
           /\ \A i \in DOMAIN ret :
                  ret[i].fn \in { "sendPosition", "sendSatellite" } => ret[i].val

\* C8 amended: with no peer no send is attempted, sendMessage returns true,
\* and sendPosition and sendSatellite return true whenever bundle_create
\* gave them a payload to pass to sendMessage.
C8_NoPeerNoSend ==
    ~s_location_data.connected
        => /\ NoSendAttempt
           /\ \A i \in DOMAIN ret :
                  /\ ret[i].fn = "sendMessage" => ret[i].val
                  /\ (/\ ret[i].fn \in { "sendPosition", "sendSatellite" }
                      /\ i > 1
                      /\ ret[i - 1].fn = "sendMessage") => ret[i].val

\* With no peer, a warm-start ran both senders and both returned true.
C8_Witness ==
    /\ ~s_location_data.connected
    /\ Returned("sendSatellite", TRUE)
    /\ Returned("sendPosition", TRUE)
    /\ NoSendAttempt

\* A step that runs enableGPS from an ENABLED event, or the retry timer.
C9_RetryStep ==
    /\ (StateEnabled' /\ Returned("initDataSend", FALSE)')
           => /\ Called("ecore_timer_add")'
              /\ timers' = timers + 1
              /\ s_location_data'.gpsEnabled
    /\ (StateEnabled' /\ ~Returned("initDataSend", FALSE)') => timers' = timers
    /\ op'.name = "onTimerSend"
           => /\ timers > 0
              /\ Ran("initDataSend")'
              /\ Returned("initDataSend", FALSE)'
                     => /\ timers' = timers
                        /\ Returned("onTimerSend", ECORE_CALLBACK_RENEW)'
              /\ Returned("initDataSend", TRUE)'
                     => /\ timers' = timers - 1
                        /\ s_location_data'.data_sent
                        /\ Returned("onTimerSend", ECORE_CALLBACK_CANCEL)'

\* C9: an enableGPS whose warm-start fails adds one retry timer (and none
\* otherwise); every firing runs warm-start; a firing whose warm-start fails
\* keeps the timer, and the firing whose warm-start succeeds leaves
\* data_sent true and deletes the timer.
C9_Retry == [][C9_RetryStep]_vars

\* The retry timer fired, warm-start succeeded, and no timer is left.
C9_Witness ==
    /\ op.name = "onTimerSend"
    /\ Returned("initDataSend", TRUE)
    /\ s_location_data.data_sent
    /\ timers = 0

\* C10: while the process runs with no provider handle (after finalize) no
\* retry timer is pending, and the timer callback never runs without a
\* handle.
C10_NoTimerAfterFinalize ==
    /\ (Running /\ s_location_data.manager = NULL) => timers = 0
    /\ op.name = "onTimerSend" => s_location_data.manager # NULL

\* The value a reader of the payload gets back from a "%f" text: sign,
\* integer part and the fraction digits that were kept, in units of 10^-6.
ParseF(t) ==
    LET v == t.whole * Micro + t.frac * Pow10(6 - t.kept)
    IN  IF t.neg THEN -v ELSE v

\* The three coordinates read back from a position payload, by key.
ParsePosition(kv) ==
    [ latitude  |-> ParseF(kv.latitude),
      longitude |-> ParseF(kv.longitude),
      altitude  |-> ParseF(kv.altitude) ]

ReadingCoordinates(gps) ==
    [ latitude |-> gps.latitude, longitude |-> gps.longitude,
      altitude |-> gps.altitude ]

\* C11: the payload sendPosition builds from the stored reading carries
\* latitude, longitude and altitude under their own keys: reading it back
\* gives the stored three values, both for the payload of the reading now
\* stored and for every position payload a position callback or the retry
\* timer handed to the channel.
C11_PayloadRoundTrip ==
    /\ ParsePosition(PositionBundle(s_gps_data).kv) = ReadingCoordinates(s_gps_data)
    /\ op.name \in { "onPositionChange", "onTimerSend" }
           => \A i \in DOMAIN sent :
                  sent[i].msg_type = MESSAGE_TYPE_POSITION_UPDATE
                      => ParsePosition(sent[i]) = ReadingCoordinates(s_gps_data)

\* C12: initialize returns false when handle creation or the state-callback
\* registration fails, and then no handle is held, nothing is registered and
\* the provider was not started; it returns true only with a live handle,
\* the state-change callback registered and the provider started.
C12_InitializeContract ==
    op.name = "onServiceCreate"
        => /\ Returned("locationInitialize", FALSE)
                  => /\ s_location_data.manager = NULL
                     /\ provider = [ handle |-> FALSE, stateCb |-> FALSE,
                                     posCb |-> FALSE, satCb |-> FALSE,
                                     started |-> FALSE ]
                     /\ ~Called("location_manager_start")
           /\ Returned("locationInitialize", TRUE)
                  => /\ s_location_data.manager # NULL
                     /\ provider.handle
                     /\ provider.stateCb
                     /\ provider.started

\* An ENABLED event registered the position callback, with the peer's port
\* found at initialize.
PositionRegistered ==
    /\ StateEnabled
    /\ Called("location_manager_set_position_updated_cb")
    /\ provider.posCb
    /\ s_location_data.connected

\* The handler that ran last made a warm-start that handed a satellite
\* message and then a position message to the channel and set data_sent.
WarmStartDelivered ==
    /\ Returned("initDataSend", TRUE)
    /\ s_location_data.data_sent
    /\ \E i, j \in DOMAIN sent :
           /\ i < j
           /\ sent[i].msg_type = MESSAGE_TYPE_SATELLITES_UPDATE
           /\ sent[j].msg_type = MESSAGE_TYPE_POSITION_UPDATE

\* C13: once enableGPS has registered the position callback, then, unless
\* finalize is called, a warm-start eventually sends a satellite message and
\* a position message and data_sent is true (the retry timer fires fairly
\* and the platform is eventually fresh and delivering).
C13_EventualDelivery ==
    PositionRegistered ~> (WarmStartDelivered \/ s_location_data.manager = NULL)

\* The same, for as long as the process is alive.
C13_DeliveryWhileAlive ==
    PositionRegistered
        ~> (WarmStartDelivered \/ s_location_data.manager = NULL \/ ~Running)

\* C14: in every step the stored position timestamp and the stored
\* satellite timestamp stay or move forward.
C14_TimestampsNeverBackward ==
    [][ /\ s_gps_data'.timestamp >= s_gps_data.timestamp
        /\ s_sat_data'.timestamp >= s_sat_data.timestamp ]_vars

\* A step in which satEnabled goes from false to true.
C15_EnableStep ==
    (~s_location_data.satEnabled /\ s_location_data'.satEnabled)
        => /\ op'.name \in { "onStateChange", "onPositionChange" }
           /\ Returned("gpsConnected", TRUE)'
           /\ Called("gps_status_set_satellite_updated_cb")'
           /\ Returned("enableSat", TRUE)'
           /\ provider'.satCb

\* C15: satEnabled goes from false to true only in a step in which the
\* connectivity probe returned connected and the satellite-callback
\* registration succeeded, whatever gpsEnabled is.
C15_SatAfterProbe == [][C15_EnableStep]_vars

\* An ENABLED event whose GPS registration failed and whose probe returned
\* connected: satEnabled is true while gpsEnabled is false.
C15_Witness ==
    /\ StateEnabled
    /\ Returned("enableGPS", FALSE)
    /\ Returned("gpsConnected", TRUE)
    /\ Returned("enableSat", TRUE)
    /\ s_location_data.satEnabled
    /\ ~s_location_data.gpsEnabled

\* The positions in ret of the returns of fn with value val.
ReturnsOf(fn, val) == { i \in DOMAIN ret : ret[i] = [fn |-> fn, val |-> val] }

\* In the handler that ran last a warm-start ran sendSatellite, then
\* sendPosition, both returned true, and it then returned true.
BothSendsSucceeded ==
    \E i \in ReturnsOf("sendSatellite", TRUE) :
        \E j \in ReturnsOf("sendPosition", TRUE) :
            \E k \in ReturnsOf("initDataSend", TRUE) : i < j /\ j < k

\* A step that runs a warm-start, or sets data_sent.
C16_WarmStartStep ==
    /\ (~s_location_data.data_sent /\ s_location_data'.data_sent)
           => BothSendsSucceeded'
    /\ \A j \in DOMAIN ret' :
           (ret'[j].fn = "sendPosition" /\ Ran("initDataSend")')
               => \E i \in 1..(j - 1) : ret'[i] = [fn |-> "sendSatellite", val |-> TRUE]

\* C16: a warm-start runs sendPosition only after sendSatellite returned
\* true, and data_sent becomes true only in a step whose warm-start had
\* both succeed; data_sent is false before any handler has run, so that
\* data_sent true always has such a warm-start behind it.
C16_DataSentMeansDelivered ==
    /\ [](op.name = "main" => ~s_location_data.data_sent)
    /\ [][C16_WarmStartStep]_vars

\* A step in which an ENABLED event runs enableGPS.
C17_EnableGpsStep ==
    StateEnabled'
        => /\ Returned("enableGPS", FALSE)'
                  => /\ ~s_location_data.gpsEnabled
                     /\ Called("location_manager_set_position_updated_cb")'
                     /\ ~provider'.posCb
                     /\ ~s_location_data'.gpsEnabled
                     /\ Called("location_manager_unset_position_updated_cb")'
                     /\ ~Ran("initDataSend")'
                     /\ ~Called("ecore_timer_add")'
                     /\ timers' = timers
           /\ (Called("location_manager_set_position_updated_cb")' /\ provider'.posCb)
                  => /\ Returned("enableGPS", TRUE)'
                     /\ s_location_data'.gpsEnabled
                     /\ Ran("initDataSend")'

\* C17: enableGPS returns false only when the registration of the position
\* callback failed, and then gpsEnabled is false, the callback was
\* unregistered, no warm-start ran and no timer was added; when the
\* registration succeeded it returns true with gpsEnabled true, whatever the
\* warm-start returned.
C17_EnableGpsResult == [][C17_EnableGpsStep]_vars

\* An ENABLED event whose position registration failed.
C17_Witness ==
    /\ StateEnabled
    /\ Returned("enableGPS", FALSE)
    /\ Called("location_manager_unset_position_updated_cb")
    /\ ~s_location_data.gpsEnabled
    /\ timers = 0

\* C18: a position callback whose reading is MAX_TIME_DIFF old or older
\* stores the reading and does not invoke the Message Sender, data_sent
\* true included.
C18_StaleUpdateNotForwarded ==
    (op.name = "onPositionChange" /\ now - s_gps_data.timestamp >= MAX_TIME_DIFF)
        => /\ s_gps_data \in LocUpdates
           /\ SenderIdle

\* A position callback stored a reading exactly MAX_TIME_DIFF old with
\* data_sent true and the peer connected, and sent nothing.
C18_Witness ==
    /\ op.name = "onPositionChange"
    /\ s_location_data.data_sent
    /\ s_location_data.connected
    /\ now - s_gps_data.timestamp = MAX_TIME_DIFF
    /\ s_gps_data \in LocUpdates
    /\ SenderIdle

SenderCalls == { i \in DOMAIN ret : ret[i].fn \in { "sendPosition", "sendSatellite" } }

SendAttempts == { i \in DOMAIN calls : calls[i] = "message_port_send_message" }

\* In the handler that ran last: no more send attempts than calls of
\* sendPosition and sendSatellite, and a refused send made the sender that
\* attempted it return false.
C19_OneAttemptPerCall ==
    s_location_data.connected
        => /\ Cardinality(SendAttempts) <= Cardinality(SenderCalls)
           /\ Len(sent) = Cardinality(SendAttempts)
           /\ \A i \in DOMAIN ret :
                  ret[i] = [fn |-> "sendMessage", val |-> FALSE]
                      => /\ i + 1 \in SenderCalls
                         /\ ~ret[i + 1].val

\* A step in which a position or satellite callback had its send refused.
C19_FailedSendStep ==
    (/\ op'.name \in { "onPositionChange", "onSatelliteChange" }
     /\ s_location_data.connected
     /\ Returned("sendMessage", FALSE)')
        => /\ timers' = timers
           /\ ~Called("ecore_timer_add")'
           /\ Cardinality(SendAttempts') = 1
           /\ s_location_data' = [s_location_data
                                     EXCEPT !.satEnabled = s_location_data'.satEnabled]
           /\ s_location_data'.satEnabled # s_location_data.satEnabled
                  => Returned("enableSat", TRUE)'

\* C19: with a peer connected, every call of sendPosition or sendSatellite
\* makes at most one send attempt and returns false when the attempt is
\* refused; a position or satellite callback whose send is refused adds no
\* timer and changes no field of s_location_data (satEnabled is set by the
\* enableSat that ran before the send, and by nothing else).
C19_SenderNeverRetries == []C19_OneAttemptPerCall /\ [][C19_FailedSendStep]_vars

\* A position callback's send was refused by the channel.
C19_Witness ==
    /\ op.name = "onPositionChange"
    /\ s_location_data.connected
    /\ Returned("sendMessage", FALSE)
    /\ Returned("sendPosition", FALSE)
    /\ Len(sent) = 1
    /\ timers = 0

\* C20: at most one retry timer is pending.
C20_AtMostOneTimer == timers <= 1

\* The warm-start of the handler that ran last had its last-location fetch
\* return an error.
LastLocationError == Returned("location_manager_get_last_location", FALSE)

\* A step whose warm-start had its last-location fetch return an error.
C21_FetchErrorStep ==
    LastLocationError'
        => /\ Returned("initData", FALSE)'
           /\ Returned("initDataSend", FALSE)'
           /\ ~Returned("initDataSend", TRUE)'
           /\ SenderIdle'
           /\ s_location_data'.data_sent = s_location_data.data_sent

\* C21: a warm-start whose last-location fetch returns an error reports
\* failure, invokes no sender and leaves data_sent as it was, whatever
\* timestamp the store holds.
C21_FetchErrorFails == [][C21_FetchErrorStep]_vars

\* The same for a store whose timestamp is outside the freshness window.
C21_FetchErrorStaleStore ==
    [][ (LastLocationError' /\ WarmStartExpired') => C21_FetchErrorStep ]_vars

====
